---- MODULE Spec2Model ----
(***************************************************************************)
(* dem_processor: main's batch loop over the discovered .asc files,        *)
(* process_asc_file's mode dispatch, and the numerical pipeline            *)
(* ascii_to_image -> grayscale_to_colormap / apply_hillshade ->            *)
(* blend_colormap_with_hillshade.                                          *)
(*                                                                         *)
(* f64/f32 values are modelled exactly where the code's result depends on  *)
(* them: a float is a record [k, n, d]; k = "fin" is the rational n/d      *)
(* (d > 0), the other kinds are NaN, the two infinities and f64::MAX /     *)
(* f64::MIN.  The elevations of Elev and the initial 0.0 give differences  *)
(* whose quotients are dyadic, so the rational arithmetic below is the     *)
(* f64 arithmetic of the code bit for bit.                                 *)
(***************************************************************************)
EXTENDS Integers, FiniteSets

\* ------------------------------------------------------------- bounds
MaxCells == 4
MaxFiles == 2
MaxImgCells == 9

\* Elevation values the reader may deliver.
Elev == {-1, 1, 3}
\* args.mode: the two supported modes and one other string.
Modes == {"grayscale", "hillshade", "contour"}

\* ------------------------------------------------------------- floats
F(k, n, d) == [k |-> k, n |-> n, d |-> d]
Fin(i) == F("fin", i, 1)
NaN == F("nan", 0, 1)
PInf == F("pinf", 0, 1)
NInf == F("ninf", 0, 1)
FMAX == F("fmax", 0, 1)
FMIN == F("fmin", 0, 1)

\* Position of a float kind on the real line (NaN has none).
Rank(k) == CASE k = "ninf" -> 0 [] k = "fmin" -> 1 [] k = "fin" -> 2
             [] k = "fmax" -> 3 [] k = "pinf" -> 4 [] OTHER -> 5

Abs(i) == IF i < 0 THEN -i ELSE i
Sign(i) == IF i < 0 THEN -1 ELSE IF i > 0 THEN 1 ELSE 0

\* a == b on floats: false whenever one side is NaN.
FEq(a, b) ==
    /\ a.k # "nan"
    /\ b.k # "nan"
    /\ a.k = b.k
    /\ (a.k = "fin" => a.n * b.d = b.n * a.d)

\* a < b on floats: false whenever one side is NaN.
FLt(a, b) ==
    /\ a.k # "nan"
    /\ b.k # "nan"
    /\ IF a.k = "fin" /\ b.k = "fin"
       THEN a.n * b.d < b.n * a.d
       ELSE Rank(a.k) < Rank(b.k)

\* f64::min / f64::max: a NaN operand is ignored.
FMinOf(a, b) == IF a.k = "nan" THEN b ELSE IF b.k = "nan" THEN a
                ELSE IF FLt(b, a) THEN b ELSE a
FMaxOf(a, b) == IF a.k = "nan" THEN b ELSE IF b.k = "nan" THEN a
                ELSE IF FLt(a, b) THEN b ELSE a

\* a - b.  A finite elevation is absorbed by f64::MAX / f64::MIN, and
\* f64::MIN - f64::MAX overflows to -inf.
FSub(a, b) ==
    CASE a.k = "nan" \/ b.k = "nan" -> NaN
      [] a.k = "fin" /\ b.k = "fin" -> F("fin", a.n * b.d - b.n * a.d, a.d * b.d)
      [] a.k = "fin" /\ b.k = "fmax" -> FMIN
      [] a.k = "fin" /\ b.k = "fmin" -> FMAX
      [] a.k = "fin" /\ b.k = "pinf" -> NInf
      [] a.k = "fin" /\ b.k = "ninf" -> PInf
      [] a.k = "fmax" /\ b.k = "fin" -> FMAX
      [] a.k = "fmin" /\ b.k = "fin" -> FMIN
      [] a.k = "fmin" /\ b.k = "fmax" -> NInf
      [] a.k = "fmax" /\ b.k = "fmin" -> PInf
      [] a.k = b.k /\ a.k \in {"fmax", "fmin"} -> Fin(0)
      [] a.k = b.k /\ a.k \in {"pinf", "ninf"} -> NaN
      [] a.k \in {"pinf", "ninf"} -> a
      [] b.k = "pinf" -> NInf
      [] b.k = "ninf" -> PInf
      [] OTHER -> NaN

\* a / b.  x - x is +0.0, so a zero divisor is +0.0: 0/0 is NaN and
\* x/0 is the infinity of x's sign.  A finite value over an infinity is 0.
FDiv(a, b) ==
    CASE a.k = "nan" \/ b.k = "nan" -> NaN
      [] a.k = "fin" /\ b.k = "fin" ->
            IF b.n = 0
            THEN (IF a.n = 0 THEN NaN ELSE IF a.n > 0 THEN PInf ELSE NInf)
            ELSE F("fin", Sign(b.n) * a.n * b.d, Abs(b.n) * a.d)
      [] a.k \in {"fin", "fmax", "fmin"} /\ b.k \in {"pinf", "ninf"} -> Fin(0)
      [] a.k \in {"pinf", "ninf"} /\ b.k \in {"pinf", "ninf"} -> NaN
      [] a.k \in {"fmax", "pinf"} /\ b.k = "fin" ->
            IF b.n < 0 THEN NInf ELSE PInf
      [] a.k \in {"fmin", "ninf"} /\ b.k = "fin" ->
            IF b.n < 0 THEN PInf ELSE NInf
      [] OTHER -> NaN

\* a * i for a positive integer constant i.
FScale(a, i) ==
    CASE a.k = "fin" -> F("fin", a.n * i, a.d)
      [] a.k = "fmax" -> PInf
      [] a.k = "fmin" -> NInf
      [] OTHER -> a

\* f64::round: to the nearest integer, halves away from zero.
FRound(a) ==
    IF a.k = "fin"
    THEN Fin(Sign(a.n) * ((2 * Abs(a.n) + a.d) \div (2 * a.d)))
    ELSE a

CastU8_nan_is_max(a) ==
    CASE a.k = "nan" -> 255
      [] a.k \in {"ninf", "fmin"} -> 0
      [] a.k \in {"pinf", "fmax"} -> 255
      [] OTHER ->
            LET t == Sign(a.n) * (Abs(a.n) \div a.d)
            IN  IF t < 0 THEN 0 ELSE IF t > 255 THEN 255 ELSE t

\* `as u8` on a float: truncates, saturates at 0 and 255, NaN gives 0.
CastU8(a) ==
    CASE a.k = "nan" -> 0
      [] a.k \in {"ninf", "fmin"} -> 0
      [] a.k \in {"pinf", "fmax"} -> 255
      [] OTHER ->
            LET t == Sign(a.n) * (Abs(a.n) \div a.d)
            IN  IF t < 0 THEN 0 ELSE IF t > 255 THEN 255 ELSE t

\* ------------------------------------------------------------- images
Pixels(w, h) == (0 .. w - 1) \X (0 .. h - 1)

\* An image of the image crate: its dimensions and one value per pixel,
\* a Luma intensity or an Rgb triple.
NewImage(w, h, v) == [width |-> w, height |-> h, px |-> [p \in Pixels(w, h) |-> v]]
NoImage == NewImage(0, 0, 0)

\* GrayImage::new: every pixel zero.
GrayNew(w, h) == NewImage(w, h, 0)

PutPixel(im, x, y, v) == [im EXCEPT !.px[<<x, y>>] = v]

\* ------------------------------------------------------ ascii_to_image
\* The matrix cells, and the cell the reader is at after rd items.
Cells(r, c) == (0 .. r - 1) \X (0 .. c - 1)
CellAt(k, c) == <<k \div c, k % c>>

\* Header dimensions: at least one row and one column, MaxCells cells at most.
Dims == {d \in (1 .. MaxCells) \X (1 .. MaxCells) : d[1] * d[2] <= MaxCells}

\* header.no_data_value().unwrap_or(f64::NAN)
NoDataChoices == {NaN, Fin(-1), Fin(1)}

PixelOf_no_nodata_branch(value, nd, mn, mx) ==
    CastU8(FRound(FScale(FDiv(FSub(Fin(value), mn), FSub(mx, mn)), 255)))

\* The intensity of one cell: 0 for a no-data cell, else the min/max scaling.
PixelOf(value, nd, mn, mx) ==
    IF FEq(Fin(value), nd)
    THEN 0
    ELSE CastU8(FRound(FScale(FDiv(FSub(Fin(value), mn), FSub(mx, mn)), 255)))

PixelRow_unflipped(r, rw) == rw

\* The image row matrix row rw is written to.
PixelRow(r, rw) == r - 1 - rw

\* ----------------------------------------------- grayscale_to_colormap
FAbs(a) == IF a.k = "fin" THEN F("fin", Abs(a.n), a.d) ELSE a

\* One pixel of the ramp; v = intensity / 255, the channels truncated.
ColormapPixel(p) ==
    LET v == F("fin", p, 255)
    IN  << CastU8(FScale(v, 255)),
           CastU8(FScale(FSub(Fin(1), FAbs(FSub(v, F("fin", 1, 2)))), 255)),
           CastU8(FScale(FSub(Fin(1), v), 128)) >>

grayscale_to_colormap_transposed(gray) ==
    [width |-> gray.height, height |-> gray.width,
     px |-> [p \in Pixels(gray.height, gray.width) |-> <<0, 0, 0>>]]

grayscale_to_colormap(gray) ==
    [width |-> gray.width, height |-> gray.height,
     px |-> [p \in Pixels(gray.width, gray.height) |-> ColormapPixel(gray.px[p])]]

\* ------------------------------------------------------ apply_hillshade
\* The arguments process_asc_file passes.
CellSize == 30
AzimuthDeg == 315
AltitudeDeg == 45

\* az_rad = deg2rad(360 - 315 + 90) % 2pi = 135 degrees, alt_rad = 45 degrees:
\* cos(alt_rad) in millionths, and sin(alt_rad) * cos(az_rad) = -1/2 and
\* sin(alt_rad) * sin(az_rad) = 1/2 in thousandths.
CosAltE6 == 707107
SinAltCosAzE3 == -500
SinAltSinAzE3 == 500

\* i32::clamp(0, n - 1): the nearest valid row or column.
ClampCoord(v, n) == IF v < 0 THEN 0 ELSE IF v > n - 1 THEN n - 1 ELSE v

get_zero_padded(gray, x, y) ==
    IF <<x, y>> \in Pixels(gray.width, gray.height) THEN gray.px[<<x, y>>] ELSE 0

\* The closure get: the intensity at the clamped coordinates.
get(gray, x, y) ==
    gray.px[<<ClampCoord(x, gray.width), ClampCoord(y, gray.height)>>]

\* The eight neighbours apply_hillshade reads at pixel (x, y).
Neighbours == {d \in (-1 .. 1) \X (-1 .. 1) : d # <<0, 0>>}

\* The numerators of dzdx and dzdy: dzdx = GradX / (8 * cell_size).  The
\* intensities are integers below 256, so the f32 sums are exact and
\* dzdx = 0 exactly when GradX = 0.
GradX(gray, x, y) ==
    (get(gray, x + 1, y - 1) + 2 * get(gray, x + 1, y) + get(gray, x + 1, y + 1))
  - (get(gray, x - 1, y - 1) + 2 * get(gray, x - 1, y) + get(gray, x - 1, y + 1))
GradY(gray, x, y) ==
    (get(gray, x - 1, y + 1) + 2 * get(gray, x, y + 1) + get(gray, x + 1, y + 1))
  - (get(gray, x - 1, y - 1) + 2 * get(gray, x, y - 1) + get(gray, x + 1, y - 1))

RECURSIVE SqrtBetween(_, _, _)
SqrtBetween(n, lo, hi) ==
    IF lo >= hi THEN lo
    ELSE LET mid == (lo + hi + 1) \div 2
         IN  IF mid * mid <= n THEN SqrtBetween(n, mid, hi)
             ELSE SqrtBetween(n, lo, mid - 1)

\* floor(sqrt(n)) for 0 <= n < 2^24.
ISqrt(n) == SqrtBetween(n, 0, 4095)

(***************************************************************************)
(* shade = round(255 * max(0, hs)) as u8, in fixed point.  With            *)
(* D = 8 * cell_size, dzdx = gx / D, dzdy = gy / D and                     *)
(* S = D^2 + gx^2 + gy^2:                                                  *)
(*   slope = atan(sqrt(dzdx^2 + dzdy^2)), so cos(slope) = D / sqrt(S) and  *)
(*   sin(slope) = sqrt(gx^2 + gy^2) / sqrt(S);                             *)
(*   aspect, in each branch of the code (dzdx # 0 with its two quadrant    *)
(*   corrections, dzdx = 0 /\ dzdy > 0, otherwise), is the angle of the    *)
(*   vector (-gx, gy), so sqrt(gx^2 + gy^2) * cos(az_rad - aspect)         *)
(*   = cos(az_rad) * (-gx) + sin(az_rad) * gy  (0 when gx = gy = 0);       *)
(*   hs * sqrt(S) = cos(alt) * D                                           *)
(*                  + sin(alt) * (cos(az) * (-gx) + sin(az) * gy).         *)
(* num is hs * sqrt(S) and w is sqrt(S), both in thousandths.              *)
(***************************************************************************)
ShadeOf(gx, gy) ==
    LET D   == 8 * CellSize
        S   == D * D + gx * gx + gy * gy
        r   == ISqrt(S)
        w   == 1000 * r + (500 * (S - r * r)) \div r
        num == (CosAltE6 * D + 500) \div 1000
               + SinAltCosAzE3 * (-gx) + SinAltSinAzE3 * gy
        q   == (2 * 255 * num + w) \div (2 * w)
    IN  IF num <= 0 THEN 0 ELSE IF q > 255 THEN 255 ELSE q

\* For every pixel of gray, the coordinates get reads while shading it.
SampledBy(gray) ==
    [p \in Pixels(gray.width, gray.height) |->
        {<<ClampCoord(p[1] + d[1], gray.width), ClampCoord(p[2] + d[2], gray.height)>> :
            d \in Neighbours}]

apply_hillshade(gray) ==
    [width |-> gray.width, height |-> gray.height,
     px |-> [p \in Pixels(gray.width, gray.height) |->
               LET shade == ShadeOf(GradX(gray, p[1], p[2]), GradY(gray, p[1], p[2]))
               IN  <<shade, shade, shade>>]]

\* ---------------------------------------- blend_colormap_with_hillshade
\* One channel: (c as f32 * s).clamp(0.0, 255.0) as u8 with s = shade / 255.
BlendChannel(c, sh) ==
    LET v == FScale(F("fin", sh, 255), c)
    IN  CastU8(IF FLt(v, Fin(0)) THEN Fin(0) ELSE IF FLt(Fin(255), v) THEN Fin(255) ELSE v)

BlendPixel(c, s) ==
    <<BlendChannel(c[1], s[1]), BlendChannel(c[2], s[1]), BlendChannel(c[3], s[1])>>

\* shade.get_pixel(x, y) panics for a pixel of color outside shade; the
\* function compares no dimensions.
BlendPanics(color, shade) ==
    \E p \in Pixels(color.width, color.height) :
        p \notin Pixels(shade.width, shade.height)

blend_colormap_with_hillshade(color, shade) ==
    [width |-> color.width, height |-> color.height,
     px |-> [p \in Pixels(color.width, color.height) |->
               BlendPixel(color.px[p], shade.px[p])]]

\* --------------------------------------------------------------- state
VARIABLES
    mode,       \* args.mode
    idx,        \* number of .asc entries the walker has yielded to main's loop
    pc,         \* where the run is: main's loop head, a step of the file's pipeline, or ended
    error,      \* the error main returned with: "none", "load" or "save"
    outputs,    \* the PNG files written: <<file, "png">> or <<file, "hillshade_png">>
    reported,   \* the files announced as "Unsupported mode"
    rows, cols, nodata,     \* ascii_to_image: the header
    values,     \* ascii_to_image: the matrix, Cells(rows, cols) -> elevation
    min_val, max_val,
    rd,         \* items the reader's iterator has yielded
    row, col,   \* the position of the normalisation loops
    img,        \* the grayscale image
    puts,       \* put_pixel calls on each pixel of img
    color_img, hillshade, blended,
    sampled     \* per pixel, the coordinates apply_hillshade's get has read

vars == <<mode, idx, pc, error, outputs, reported, rows, cols, nodata, values,
          min_val, max_val, rd, row, col, img, puts, color_img, hillshade,
          blended, sampled>>

batch == <<mode, idx, error, outputs, reported>>
grid == <<rows, cols, nodata, values, min_val, max_val, rd>>
derived == <<color_img, hillshade, blended, sampled>>

\* No file is being processed: process_asc_file's locals do not exist.
NoFile ==
    /\ rows = 0 /\ cols = 0 /\ nodata = NaN
    /\ values = [c \in {} |-> 0]
    /\ min_val = FMAX /\ max_val = FMIN
    /\ rd = 0 /\ row = 0 /\ col = 0
    /\ img = NoImage
    /\ puts = [p \in {} |-> 0]
    /\ color_img = NoImage /\ hillshade = NoImage /\ blended = NoImage
    /\ sampled = [p \in {} |-> {}]

DropFile ==
    /\ rows' = 0 /\ cols' = 0 /\ nodata' = NaN
    /\ values' = [c \in {} |-> 0]
    /\ min_val' = FMAX /\ max_val' = FMIN
    /\ rd' = 0 /\ row' = 0 /\ col' = 0
    /\ img' = NoImage
    /\ puts' = [p \in {} |-> 0]
    /\ color_img' = NoImage /\ hillshade' = NoImage /\ blended' = NoImage
    /\ sampled' = [p \in {} |-> {}]

Init ==
    /\ mode \in Modes
    /\ idx = 0
    /\ pc = "main"
    /\ error = "none"
    /\ outputs = {}
    /\ reported = {}
    /\ NoFile

\* ---------------------------------------------------------------- main
MainOnErr_continue == "main"

\* process_asc_file(path, &args)?: an Err ends main with that error.
MainOnErr == "aborted"

\* The for loop takes the walker's next .asc entry.
NextEntry ==
    /\ pc = "main"
    /\ idx < MaxFiles
    /\ idx' = idx + 1
    /\ pc' = "open"
    /\ UNCHANGED <<mode, error, outputs, reported, grid, row, col, img, puts, derived>>

\* The walker is exhausted: main prints its farewell and returns Ok.
AllDone ==
    /\ pc = "main"
    /\ pc' = "done"
    /\ UNCHANGED <<batch, grid, row, col, img, puts, derived>>

\* A failure of the file being processed reaches main through the ? operators.
Fail(kind) ==
    /\ error' = kind
    /\ pc' = MainOnErr
    /\ DropFile
    /\ UNCHANGED <<mode, idx, outputs, reported>>

\* process_asc_file returned Ok(()): back to the loop head.
Return ==
    /\ pc' = "main"
    /\ DropFile

\* ------------------------------------------------------ ascii_to_image
\* File::open or EsriASCIIReader::from_file fails.
OpenFail ==
    /\ pc = "open"
    /\ Fail("load")

\* The header is read; values is zero-filled, min_val and max_val start
\* at f64::MAX and f64::MIN.
OpenOk ==
    /\ pc = "open"
    /\ \E d \in Dims, nd \in NoDataChoices :
        /\ rows' = d[1]
        /\ cols' = d[2]
        /\ nodata' = nd
        /\ values' = [c \in Cells(d[1], d[2]) |-> 0]
    /\ min_val' = FMAX
    /\ max_val' = FMIN
    /\ rd' = 0
    /\ pc' = "read"
    /\ UNCHANGED <<batch, row, col, img, puts, derived>>

\* The iterator yields Ok((row, col, value)) for its next cell.
ReadOk ==
    /\ pc = "read"
    /\ rd < rows * cols
    /\ \E value \in Elev :
        /\ values' = [values EXCEPT ![CellAt(rd, cols)] = value]
        /\ IF ~FEq(Fin(value), nodata)
           THEN /\ min_val' = FMinOf(min_val, Fin(value))
                /\ max_val' = FMaxOf(max_val, Fin(value))
           ELSE UNCHANGED <<min_val, max_val>>
    /\ rd' = rd + 1
    /\ UNCHANGED <<batch, pc, rows, cols, nodata, row, col, img, puts, derived>>

\* The iterator yields an Err for its next cell: `if let Ok` skips it.
ReadErr ==
    /\ pc = "read"
    /\ rd < rows * cols
    /\ rd' = rd + 1
    /\ UNCHANGED <<batch, pc, rows, cols, nodata, values, min_val, max_val,
                   row, col, img, puts, derived>>

\* The iterator is exhausted: GrayImage::new(cols, rows).
ReadEnd ==
    /\ pc = "read"
    /\ rd = rows * cols
    /\ img' = GrayNew(cols, rows)
    /\ puts' = [p \in Pixels(cols, rows) |-> 0]
    /\ row' = 0
    /\ col' = 0
    /\ pc' = "map"
    /\ UNCHANGED <<batch, grid, derived>>

\* One iteration of the inner normalisation loop; after the last one
\* ascii_to_image returns Ok(img) to process_asc_file's match.
MapPixel ==
    /\ pc = "map"
    /\ LET y == PixelRow(rows, row)
       IN  /\ img' = PutPixel(img, col, y, PixelOf(values[<<row, col>>], nodata, min_val, max_val))
           /\ puts' = [puts EXCEPT ![<<col, y>>] = @ + 1]
    /\ IF col + 1 < cols
       THEN /\ col' = col + 1
            /\ UNCHANGED <<row, pc>>
       ELSE /\ col' = 0
            /\ row' = row + 1
            /\ pc' = IF row + 1 < rows THEN "map" ELSE "match"
    /\ UNCHANGED <<batch, grid, derived>>

\* ---------------------------------------------------- process_asc_file
MatchArm_default_hillshade(m) ==
    IF m = "grayscale" THEN "grayscale" ELSE "hillshade"

\* match args.mode.as_str()
MatchArm(m) ==
    IF m = "grayscale" THEN "grayscale"
    ELSE IF m = "hillshade" THEN "hillshade"
    ELSE "_"

\* "grayscale": image.save(&output_path) succeeds.
SaveGrayscale ==
    /\ pc = "match"
    /\ MatchArm(mode) = "grayscale"
    /\ outputs' = outputs \cup {<<idx, "png">>}
    /\ Return
    /\ UNCHANGED <<mode, idx, error, reported>>

\* "grayscale": image.save(&output_path) fails.
SaveGrayscaleFail ==
    /\ pc = "match"
    /\ MatchArm(mode) = "grayscale"
    /\ Fail("save")

\* "hillshade": grayscale_to_colormap(&image)
Colormap ==
    /\ pc = "match"
    /\ MatchArm(mode) = "hillshade"
    /\ color_img' = grayscale_to_colormap(img)
    /\ pc' = "shade"
    /\ UNCHANGED <<batch, grid, row, col, img, puts, hillshade, blended, sampled>>

\* "hillshade": apply_hillshade(&image, 30.0, 315.0, 45.0)
Hillshade ==
    /\ pc = "shade"
    /\ hillshade' = apply_hillshade(img)
    /\ sampled' = SampledBy(img)
    /\ pc' = "blend"
    /\ UNCHANGED <<batch, grid, row, col, img, puts, color_img, blended>>

\* "hillshade": blend_colormap_with_hillshade(&color_img, &hillshade)
Blend ==
    /\ pc = "blend"
    /\ IF BlendPanics(color_img, hillshade)
       THEN /\ pc' = "panicked"
            /\ UNCHANGED blended
       ELSE /\ blended' = blend_colormap_with_hillshade(color_img, hillshade)
            /\ pc' = "save"
    /\ UNCHANGED <<batch, grid, row, col, img, puts, color_img, hillshade, sampled>>

\* "hillshade": blended.save(&output_path) succeeds.
SaveHillshade ==
    /\ pc = "save"
    /\ outputs' = outputs \cup {<<idx, "hillshade_png">>}
    /\ Return
    /\ UNCHANGED <<mode, idx, error, reported>>

\* "hillshade": blended.save(&output_path) fails.
SaveHillshadeFail ==
    /\ pc = "save"
    /\ Fail("save")

\* _ => println!("Unsupported mode: ...")
Unsupported ==
    /\ pc = "match"
    /\ MatchArm(mode) = "_"
    /\ reported' = reported \cup {idx}
    /\ Return
    /\ UNCHANGED <<mode, idx, error, outputs>>

Next ==
    \/ NextEntry
    \/ AllDone
    \/ OpenFail
    \/ OpenOk
    \/ ReadOk
    \/ ReadErr
    \/ ReadEnd
    \/ MapPixel
    \/ SaveGrayscale
    \/ SaveGrayscaleFail
    \/ Colormap
    \/ Hillshade
    \/ Blend
    \/ SaveHillshade
    \/ SaveHillshadeFail
    \/ Unsupported

Spec == Init /\ [][Next]_vars

\* ------------------------------------------- the image functions alone
\* apply_hillshade and blend_colormap_with_hillshade on arbitrary arguments:
\* any intensity image and any colour image, of independent dimensions.
GrayLevels == {0, 255}
ImgDims == {d \in (1 .. MaxImgCells) \X (1 .. MaxImgCells) : d[1] * d[2] <= MaxImgCells}
GrayInputs ==
    UNION {{[width |-> d[1], height |-> d[2], px |-> f] :
               f \in [Pixels(d[1], d[2]) -> GrayLevels]} : d \in ImgDims}
ColorInputs == {NewImage(d[1], d[2], <<255, 128, 0>>) : d \in Dims}

InitImg ==
    /\ mode = "hillshade"
    /\ idx = 0
    /\ pc = "shade"
    /\ error = "none"
    /\ outputs = {}
    /\ reported = {}
    /\ rows = 0 /\ cols = 0 /\ nodata = NaN
    /\ values = [c \in {} |-> 0]
    /\ min_val = FMAX /\ max_val = FMIN
    /\ rd = 0 /\ row = 0 /\ col = 0
    /\ img \in GrayInputs
    /\ puts = [p \in {} |-> 0]
    /\ color_img \in ColorInputs
    /\ hillshade = NoImage
    /\ blended = NoImage
    /\ sampled = [p \in {} |-> {}]

NextImg ==
    \/ Hillshade
    \/ Blend

SpecImg == InitImg /\ [][NextImg]_vars

\* ---------------------------------------------------------- properties
\* ascii_to_image has returned its image to process_asc_file.
Imaged == {"match", "shade", "blend", "save"}

\* The matrix cells that do not equal the no-data sentinel, and their values.
ValidCells == {c \in Cells(rows, cols) : ~FEq(Fin(values[c]), nodata)}
ValidValues == {values[c] : c \in ValidCells}
SetMin(S) == CHOOSE m \in S : \A x \in S : m <= x
SetMax(S) == CHOOSE m \in S : \A x \in S : x <= m

\* The grayscale pixel at image position (x = column, y = rows - 1 - row).
FlippedPixel(c) == img.px[<<c[2], rows - 1 - c[1]>>]

\* round((value - min_val) / (max_val - min_val) * 255), before the cast.
Scaled(value) ==
    FRound(FScale(FDiv(FSub(Fin(value), min_val), FSub(max_val, min_val)), 255))

\* C1: once ascii_to_image has returned, every cell equal to the no-data
\* sentinel has intensity 0 at its pixel, whatever the other cells hold.
C1_NoDataIsZero ==
    pc \in Imaged =>
        \A c \in Cells(rows, cols) :
            FEq(Fin(values[c]), nodata) => FlippedPixel(c) = 0

\* A no-data cell strictly inside the range of the valid cells, beside
\* pixels that are not 0.
C1_Witness ==
    /\ pc = "match"
    /\ \E c \in Cells(rows, cols) :
        /\ FEq(Fin(values[c]), nodata)
        /\ FLt(min_val, Fin(values[c]))
        /\ FLt(Fin(values[c]), max_val)
        /\ FlippedPixel(c) = 0
    /\ \E p \in Pixels(cols, rows) : img.px[p] = 255

\* C2: when the valid cells of the matrix do not all hold one value, every
\* valid cell's intensity is round((value - min_val) / (max_val - min_val) * 255),
\* a number of 0 .. 255; cells holding min_val get 0, cells holding max_val 255.
C2_MinMaxScaling ==
    (pc \in Imaged /\ Cardinality(ValidValues) > 1) =>
        \A c \in ValidCells :
            /\ Scaled(values[c]).k = "fin"
            /\ Scaled(values[c]).n \in 0 .. 255
            /\ FlippedPixel(c) = Scaled(values[c]).n
            /\ FEq(Fin(values[c]), min_val) => FlippedPixel(c) = 0
            /\ FEq(Fin(values[c]), max_val) => FlippedPixel(c) = 255

\* C3: after the read loop min_val and max_val are the minimum and the
\* maximum of the valid cells of the matrix, so every valid cell lies
\* between them.
C3_MinMaxOfMatrix ==
    (pc \in {"map"} \cup Imaged /\ ValidValues # {}) =>
        /\ min_val = Fin(SetMin(ValidValues))
        /\ max_val = Fin(SetMax(ValidValues))
        /\ \A v \in ValidValues : ~FLt(Fin(v), min_val) /\ ~FLt(max_val, Fin(v))

\* The intensity of the matrix cell nearest to (r, c), and the Horn
\* gradients of the image pixel of cell (r, c) read off the matrix: image
\* row y + 1 is matrix row r - 1.
CellIntensity(r, c) ==
    PixelOf(values[<<ClampCoord(r, rows), ClampCoord(c, cols)>>], nodata, min_val, max_val)
MatrixGradX(r, c) ==
    (CellIntensity(r + 1, c + 1) + 2 * CellIntensity(r, c + 1) + CellIntensity(r - 1, c + 1))
  - (CellIntensity(r + 1, c - 1) + 2 * CellIntensity(r, c - 1) + CellIntensity(r - 1, c - 1))
MatrixGradY(r, c) ==
    (CellIntensity(r - 1, c - 1) + 2 * CellIntensity(r - 1, c) + CellIntensity(r - 1, c + 1))
  - (CellIntensity(r + 1, c - 1) + 2 * CellIntensity(r + 1, c) + CellIntensity(r + 1, c + 1))

\* C4: the intensity of matrix cell (r, c) is at image pixel
\* (x = c, y = rows - 1 - r); every pixel is written exactly once (at most
\* once while the loop runs); the colormap, hillshade and blended images
\* hold at that same pixel the colour, the shade and the blend of cell (r, c).
C4_VerticalFlip ==
    /\ pc = "map" => \A p \in Pixels(cols, rows) : puts[p] <= 1
    /\ pc \in Imaged =>
        /\ \A p \in Pixels(cols, rows) : puts[p] = 1
        /\ \A c \in Cells(rows, cols) :
            FlippedPixel(c) = PixelOf(values[c], nodata, min_val, max_val)
    /\ pc = "save" =>
        \A c \in Cells(rows, cols) :
            LET p  == <<c[2], rows - 1 - c[1]>>
                i  == PixelOf(values[c], nodata, min_val, max_val)
                sh == ShadeOf(MatrixGradX(c[1], c[2]), MatrixGradY(c[1], c[2]))
            IN  /\ color_img.px[p] = ColormapPixel(i)
                /\ hillshade.px[p] = <<sh, sh, sh>>
                /\ blended.px[p] = BlendPixel(ColormapPixel(i), <<sh, sh, sh>>)

\* A grid of two rows or more whose row 0 is brighter than its last row,
\* carried through to the blended image.
C4_Witness ==
    /\ pc = "save"
    /\ rows >= 2
    /\ PixelOf(values[<<0, 0>>], nodata, min_val, max_val) = 255
    /\ img.px[<<0, rows - 1>>] = 255
    /\ img.px[<<0, 0>>] = 0
    /\ blended.px[<<0, rows - 1>>] # blended.px[<<0, 0>>]

\* C5: when the valid cells of the matrix all hold one value, or no cell
\* is valid, ascii_to_image returns and every pixel is 0.
C5_DegenerateRange ==
    (pc \in Imaged /\ Cardinality(ValidValues) <= 1) =>
        \A p \in Pixels(cols, rows) : img.px[p] = 0

\* An all-equal grid of several cells: max_val = min_val, the quotient is 0/0.
C5_Witness ==
    /\ pc = "match"
    /\ rows * cols >= 2
    /\ ValidCells = Cells(rows, cols)
    /\ Cardinality(ValidValues) = 1
    /\ FEq(min_val, max_val)
    /\ \A p \in Pixels(cols, rows) : img.px[p] = 0

HasDims(im, w, h) ==
    /\ im.width = w
    /\ im.height = h
    /\ DOMAIN im.px = Pixels(w, h)

\* C6: every image derived for a grid of rows x cols cells is cols wide
\* and rows high.
C6_Dimensions ==
    /\ pc \in {"map"} \cup Imaged => HasDims(img, cols, rows)
    /\ pc \in {"shade", "blend", "save"} => HasDims(color_img, cols, rows)
    /\ pc \in {"blend", "save"} => HasDims(hillshade, cols, rows)
    /\ pc = "save" => HasDims(blended, cols, rows)

\* All four images of a grid that is not square.
C6_Witness ==
    /\ pc = "save"
    /\ rows # cols
    /\ HasDims(blended, cols, rows)

SameDims(a, b) == a.width = b.width /\ a.height = b.height

\* C7: blend_colormap_with_hillshade returns an image only for two images
\* of equal dimensions, and never reads a pixel outside the shade image:
\* differing dimensions are met by a DimensionMismatch error.
C7_DimensionMismatchChecked ==
    /\ pc = "save" => SameDims(color_img, hillshade)
    /\ pc # "panicked"

Supported == {"grayscale", "hillshade"}

\* C8: with an unsupported mode every file is reported and skipped, no
\* output is written, and the run never aborts.
C8_UnsupportedNeverAborts ==
    mode \notin Supported =>
        /\ outputs = {}
        /\ pc # "aborted"
        /\ error = "none"
        /\ pc \in {"main", "done"} => reported = 1 .. idx

\* C8 as amended: with an unsupported mode no output is written and every
\* file that ascii_to_image loads is reported and skipped; the run aborts
\* only on a file that fails to load, with the earlier files reported.
C8_UnsupportedSkipsLoadedFiles ==
    mode \notin Supported =>
        /\ outputs = {}
        /\ pc \notin {"shade", "blend", "save", "panicked"}
        /\ pc \in {"main", "done"} => (error = "none" /\ reported = 1 .. idx)
        /\ pc = "aborted" => (error = "load" /\ reported = 1 .. (idx - 1))
        /\ pc \in {"open", "read", "map", "match"} => reported = 1 .. (idx - 1)

\* A run of MaxFiles files, all loaded, all reported, ended successfully.
C8_Witness ==
    /\ mode \notin Supported
    /\ pc = "done"
    /\ idx = MaxFiles
    /\ reported = 1 .. MaxFiles
    /\ outputs = {}

IsFlat(im) == \A p, q \in DOMAIN im.px : im.px[p] = im.px[q]

\* s = round(255 * cos(45 degrees)): cos^2 is 1/2, so s - 1/2 <= 255 / sqrt(2) < s + 1/2.
IsFlatShade(s) ==
    /\ (2 * s - 1) * (2 * s - 1) <= 2 * 255 * 255
    /\ 2 * 255 * 255 < (2 * s + 1) * (2 * s + 1)

\* C9: apply_hillshade reads, for each pixel, only coordinates of the
\* image at most one row and one column away (clamped, not wrapped); every
\* shade is in 0 .. 255 with three equal channels; and for an image whose
\* pixels are all equal both gradients are 0 at every pixel and every
\* shade is round(255 * cos(altitude_rad)).
C9_Hillshade ==
    pc \in {"blend", "save", "panicked"} =>
        /\ HasDims(hillshade, img.width, img.height)
        /\ \A p \in Pixels(img.width, img.height) :
            /\ \A q \in sampled[p] :
                /\ q \in Pixels(img.width, img.height)
                /\ Abs(q[1] - p[1]) <= 1
                /\ Abs(q[2] - p[2]) <= 1
            /\ hillshade.px[p][1] \in 0 .. 255
            /\ hillshade.px[p][2] = hillshade.px[p][1]
            /\ hillshade.px[p][3] = hillshade.px[p][1]
        /\ IsFlat(img) =>
            \A p \in Pixels(img.width, img.height) :
                /\ GradX(img, p[1], p[2]) = 0
                /\ GradY(img, p[1], p[2]) = 0
                /\ IsFlatShade(hillshade.px[p][1])

\* A flat 3 x 3 image of intensity 255: its interior pixel and its corners
\* have the same shade, 180.
C9_Witness ==
    /\ pc = "blend"
    /\ img.width = 3
    /\ img.height = 3
    /\ IsFlat(img)
    /\ img.px[<<1, 1>>] = 255
    /\ hillshade.px[<<1, 1>>] = <<180, 180, 180>>
    /\ hillshade.px[<<0, 0>>] = <<180, 180, 180>>
    /\ hillshade.px[<<2, 2>>] = <<180, 180, 180>>

InFile == {"open", "read", "map", "match", "shade", "blend", "save"}

\* C10, in every state: the run has an error exactly when it is aborted;
\* no output belongs to a file the loop has not reached, to the file in
\* progress, or to the file that failed; every earlier file has its output.
C10_State ==
    /\ error # "none" <=> pc = "aborted"
    /\ \A o \in outputs : o[1] <= idx
    /\ pc \in InFile \cup {"aborted", "panicked"} => \A o \in outputs : o[1] < idx
    /\ pc = "aborted" /\ mode \in Supported => {o[1] : o \in outputs} = 1 .. (idx - 1)
    /\ pc \in {"main", "done"} /\ mode \in Supported => {o[1] : o \in outputs} = 1 .. idx

\* C10, in every step: the loop takes the next file only from its head,
\* with the previous file's pipeline over; outputs are never removed; an
\* aborted run does nothing more.
C10_Step ==
    /\ idx' # idx => (pc = "main" /\ idx' = idx + 1 /\ NoFile /\ pc' = "open")
    /\ outputs \subseteq outputs'
    /\ pc = "aborted" => UNCHANGED vars

====
